---------------------------- MODULE Spec2Model ----------------------------
(***************************************************************************)
(* Model of finapps.stocks: the MKT_DATA table behind MarketDataDAO        *)
(* (src/finapps/stocks/dao.py) and StockService.maybe_get_data / digest    *)
(* (src/finapps/stocks/service.py).                                        *)
(*                                                                         *)
(* Dates are proleptic Gregorian ordinals (datetime.date.toordinal), so    *)
(* "date - timedelta(days=n)" is integer subtraction.  Prices are the      *)
(* float64 columns, kept as integers.  MKT_VOLUME of a frame handed to     *)
(* insert is a float (alpha_vantage_download builds it with float(...));   *)
(* it is kept in units of 1/FloatScale so that astype('int64') has         *)
(* something to truncate.  The stored MKT_VOLUME is an integer.            *)
(***************************************************************************)
EXTENDS Integers, Sequences, FiniteSets, TLC

VARIABLES
    store,           \* the MKT_DATA table: a set of rows
    last_upsert,     \* history: per (symbol, date), the frame row upserted last
    overwritten,     \* history: keys whose row an upsert changed
    insert_columns,  \* df.columns of the frame given to the last insert call
    insert_error,    \* "none" or the exception the last insert call raised
    pc,              \* position of the running digest call
    symbol,          \* digest argument
    as_of_date,      \* digest argument
    as_of_data,      \* digest local (line 93)
    data_by_label,   \* digest local (line 105), in config order
    calls,           \* every maybe_get_data call of the running digest, in order
    outcome,         \* how the digest call ended: what was raised, and where
    digest           \* the DataFrame digest returns

vars == <<store, last_upsert, overwritten, insert_columns, insert_error,
          pc, symbol, as_of_date, as_of_data, data_by_label, calls, outcome, digest>>

store_vars == <<store, last_upsert, overwritten, insert_columns, insert_error>>

digest_vars == <<pc, symbol, as_of_date, as_of_data, data_by_label, calls, outcome, digest>>

----------------------------------------------------------------------------
(* Bounds of the model                                                     *)

\* the ordinal of 2024-01-02, the reference day the stored dates are laid around
Day0 == 738887

\* a frame float x is the integer x * FloatScale
FloatScale == 2

\* longest frame handed to insert
MaxBatch == 2

Symbols == {"ABC", "XYZ"}

Range(s) == {s[i] : i \in DOMAIN s}

----------------------------------------------------------------------------
(* MarketDataDAO                                                           *)

schema == <<"MKT_SYMBOL", "MKT_DATE", "MKT_OPEN", "MKT_HIGH", "MKT_LOW",
            "MKT_CLOSE", "MKT_VOLUME">>

\* int(x) of a non-negative or negative quotient num/den, den > 0: toward zero
trunc_div(num, den) ==
    IF num >= 0 THEN num \div den ELSE -((-num) \div den)

\* Series.astype('int64') of a float column: the fraction is dropped
astype_int64(x) == trunc_div(x, FloatScale)

\* to_schema on one record of a frame whose columns are schema's: str,
\* datetime64 and float64 keep the value of a str, a date and a float
to_schema(r) ==
    [MKT_SYMBOL |-> r.MKT_SYMBOL,
     MKT_DATE   |-> r.MKT_DATE,
     MKT_OPEN   |-> r.MKT_OPEN,
     MKT_HIGH   |-> r.MKT_HIGH,
     MKT_LOW    |-> r.MKT_LOW,
     MKT_CLOSE  |-> r.MKT_CLOSE,
     MKT_VOLUME |-> astype_int64(r.MKT_VOLUME)]

\* a looser check a slip could leave: extra columns pass
columns_match_superset(columns) == Range(schema) \subseteq Range(columns)

\* insert's guard: set(df.columns) != set(self.schema.keys()) raises
columns_match(columns) == Range(columns) = Range(schema)

same_key(x, r) == x.MKT_SYMBOL = r.MKT_SYMBOL /\ x.MKT_DATE = r.MKT_DATE

\* INSERT without the ON CONFLICT clause acting: the row is added beside the old one
upsert_no_conflict(table, r) == table \cup {r}

\* one execution of the INSERT ... ON CONFLICT (MKT_SYMBOL,MKT_DATE) DO UPDATE
upsert(table, r) ==
    IF \E x \in table : same_key(x, r)
    THEN {IF same_key(x, r)
          THEN [x EXCEPT !.MKT_OPEN = r.MKT_OPEN, !.MKT_HIGH = r.MKT_HIGH,
                         !.MKT_LOW = r.MKT_LOW, !.MKT_CLOSE = r.MKT_CLOSE,
                         !.MKT_VOLUME = r.MKT_VOLUME]
          ELSE x : x \in table}
    ELSE table \cup {r}

\* execute_batch: the statement once per record of df.to_dict('records'), in order
RECURSIVE execute_batch(_, _)
execute_batch(table, records) ==
    IF records = <<>> THEN table
    ELSE execute_batch(upsert(table, to_schema(Head(records))), Tail(records))

\* SELECT ... WHERE MKT_SYMBOL = symbol AND MKT_DATE >= lo_date AND MKT_DATE <= hi_date.
\* The rows come back in the table's types, so to_schema changes no value.
select(table, sym, lo_date, hi_date) ==
    {r \in table : r.MKT_SYMBOL = sym /\ r.MKT_DATE >= lo_date /\ r.MKT_DATE <= hi_date}

\* the history variables after the same batch
RECURSIVE track_last(_, _)
track_last(last, records) ==
    IF records = <<>> THEN last
    ELSE LET r == Head(records)
         IN  track_last([last EXCEPT ![<<r.MKT_SYMBOL, r.MKT_DATE>>] = {r}],
                        Tail(records))

RECURSIVE track_overwritten(_, _, _)
track_overwritten(table, over, records) ==
    IF records = <<>> THEN over
    ELSE LET r == to_schema(Head(records))
         IN  track_overwritten(upsert(table, r),
                 IF \E x \in table : same_key(x, r) /\ x # r
                 THEN over \cup {<<r.MKT_SYMBOL, r.MKT_DATE>>} ELSE over,
                 Tail(records))

----------------------------------------------------------------------------
(* Frames handed to insert                                                 *)

\* days the loader's frames are about
LoadDates == {Day0 - 1, Day0}

\* two bars' worth of values; the second volume is not a whole number
Payloads ==
    {[MKT_OPEN |-> 95, MKT_HIGH |-> 101, MKT_LOW |-> 89, MKT_CLOSE |-> 90,
      MKT_VOLUME |-> 500 * FloatScale],
     [MKT_OPEN |-> 96, MKT_HIGH |-> 102, MKT_LOW |-> 94, MKT_CLOSE |-> 100,
      MKT_VOLUME |-> 2 * FloatScale + 1]}

LoadRecords ==
    {[MKT_SYMBOL |-> s, MKT_DATE |-> d, MKT_OPEN |-> p.MKT_OPEN,
      MKT_HIGH |-> p.MKT_HIGH, MKT_LOW |-> p.MKT_LOW, MKT_CLOSE |-> p.MKT_CLOSE,
      MKT_VOLUME |-> p.MKT_VOLUME] : s \in Symbols, d \in LoadDates, p \in Payloads}

Seqs(S, n) == UNION {[1..k -> S] : k \in 1..n}

\* frames with the schema's columns
GoodFrames == {[columns |-> schema, records |-> rs] : rs \in Seqs(LoadRecords, MaxBatch)}

\* frames insert must reject: pd.DataFrame([]) has no columns; one column
\* short; one column more
BadFrames ==
    {[columns |-> <<>>, records |-> <<>>]}
    \cup {[columns |-> SubSeq(schema, 1, Len(schema) - 1),
           records |-> <<[MKT_SYMBOL |-> r.MKT_SYMBOL, MKT_DATE |-> r.MKT_DATE,
                          MKT_OPEN |-> r.MKT_OPEN, MKT_HIGH |-> r.MKT_HIGH,
                          MKT_LOW |-> r.MKT_LOW, MKT_CLOSE |-> r.MKT_CLOSE]>>]
          : r \in LoadRecords}
    \cup {[columns |-> Append(schema, "LABEL"),
           records |-> <<[MKT_SYMBOL |-> r.MKT_SYMBOL, MKT_DATE |-> r.MKT_DATE,
                          MKT_OPEN |-> r.MKT_OPEN, MKT_HIGH |-> r.MKT_HIGH,
                          MKT_LOW |-> r.MKT_LOW, MKT_CLOSE |-> r.MKT_CLOSE,
                          MKT_VOLUME |-> r.MKT_VOLUME, LABEL |-> "1d"]>>]
          : r \in LoadRecords}

Frames == GoodFrames \cup BadFrames


\* every (symbol, date) the model stores under
BackDays == {0 - 1, 0, 1, 2, 6, 7, 30, 35, 36, 90, 180, 365, 1095}

DigestDates == {Day0 - k : k \in BackDays}

Keys == Symbols \X (LoadDates \cup DigestDates)

\* insert(df): what it raises and the table it leaves
insert(table, df) ==
    IF ~columns_match(df.columns)
    THEN [raised |-> "RuntimeError", table |-> table]
    ELSE [raised |-> "none", table |-> execute_batch(table, df.records)]

----------------------------------------------------------------------------
(* The store under load: every CLI run of bin/stocks/load.py ends in one   *)
(* dao.insert(df)                                                          *)

NoDataFrame == [kind |-> "DataFrame", rows |-> {}]

NoOutcome == [raised |-> "none", line |-> 0]

NoDigest == [columns |-> <<>>, rows |-> <<>>]

DigestIdle ==
    /\ pc = "idle"
    /\ symbol = ""
    /\ as_of_date = 0
    /\ as_of_data = NoDataFrame
    /\ data_by_label = <<>>
    /\ calls = <<>>
    /\ outcome = NoOutcome
    /\ digest = NoDigest

Init ==
    /\ store = {}
    /\ last_upsert = [k \in Keys |-> {}]
    /\ overwritten = {}
    /\ insert_columns = schema
    /\ insert_error = "none"
    /\ DigestIdle

Insert(df) ==
    /\ pc = "idle"
    /\ LET res == insert(store, df)
       IN  /\ store' = res.table
           /\ insert_error' = res.raised
           /\ insert_columns' = df.columns
           /\ last_upsert' = IF res.raised = "none"
                             THEN track_last(last_upsert, df.records)
                             ELSE last_upsert
           /\ overwritten' = IF res.raised = "none"
                             THEN track_overwritten(store, overwritten, df.records)
                             ELSE overwritten
    /\ UNCHANGED digest_vars

Next == \E df \in Frames : Insert(df)

Spec == Init /\ [][Next]_vars

----------------------------------------------------------------------------
(* StockService.maybe_get_data                                             *)

DataFrame(rows) == [kind |-> "DataFrame", rows |-> rows]

\* Python's None: what no DataFrame is
None == [kind |-> "None"]

\* df.sort_values(by='MKT_DATE', ascending=True): the oldest row comes first
maybe_get_data_ascending(table, sym, date, look_back) ==
    LET lo_date == date - look_back
        df == select(table, sym, lo_date, date)
    IN  IF df = {} THEN DataFrame(df)
        ELSE DataFrame({CHOOSE r \in df : \A q \in df : q.MKT_DATE >= r.MKT_DATE})

\* lines 58-69: the empty frame of the query, or its row of greatest MKT_DATE
\* (sort_values descending, head(1))
maybe_get_data(table, sym, date, look_back) ==
    LET lo_date == date - look_back
        df == select(table, sym, lo_date, date)
    IN  IF df = {} THEN DataFrame(df)
        ELSE DataFrame({CHOOSE r \in df : \A q \in df : q.MKT_DATE <= r.MKT_DATE})

\* a window as wide as the second offset
look_back_month == 5 * 6

\* look_back=5, the default of maybe_get_data's parameter
look_back_default == 5

\* looking back from the as-of date as from any other date
as_of_look_back_loose == look_back_default

\* look_back=0 of the as-of query (line 93)
as_of_look_back == 0

----------------------------------------------------------------------------
(* StockService.digest                                                     *)

\* lines 97-104, in the dict's insertion order
config(date) ==
    << [label |-> "1d", date |-> date - 1],
       [label |-> "1m", date |-> date - 30],
       [label |-> "3m", date |-> date - 90],
       [label |-> "6m", date |-> date - 180],
       [label |-> "1y", date |-> date - 365],
       [label |-> "3y", date |-> date - 365 * 3] >>

metrics == <<"CLOSE", "VOLUME">>

\* the code points of the strings pandas sorts when it pivots
ord ==
    [s \in {"1d", "1m", "3m", "6m", "1y", "3y", "CLOSE", "VOLUME"} |->
        CASE s = "1d" -> <<49, 100>>
          [] s = "1m" -> <<49, 109>>
          [] s = "3m" -> <<51, 109>>
          [] s = "6m" -> <<54, 109>>
          [] s = "1y" -> <<49, 121>>
          [] s = "3y" -> <<51, 121>>
          [] s = "CLOSE" -> <<67, 76, 79, 83, 69>>
          [] s = "VOLUME" -> <<86, 79, 76, 85, 77, 69>>]

\* a < b for two strings, as Python compares them
RECURSIVE codes_less(_, _)
codes_less(a, b) ==
    IF b = <<>> THEN FALSE
    ELSE IF a = <<>> THEN TRUE
    ELSE IF Head(a) # Head(b) THEN Head(a) < Head(b)
    ELSE codes_less(Tail(a), Tail(b))

str_less(a, b) == codes_less(ord[a], ord[b])

\* the strings of S in ascending order
RECURSIVE sorted_strs(_)
sorted_strs(S) ==
    IF S = {} THEN <<>>
    ELSE LET m == CHOOSE x \in S : \A y \in S \ {x} : str_less(x, y)
         IN  <<m>> \o sorted_strs(S \ {m})

\* sort_values(by=['MKT_DATE'], ascending=False) of a set of rows
RECURSIVE sort_by_date_desc(_)
sort_by_date_desc(S) ==
    IF S = {} THEN <<>>
    ELSE LET m == CHOOSE x \in S : \A y \in S : y.MKT_DATE <= x.MKT_DATE
         IN  <<m>> \o sort_by_date_desc(S \ {m})

\* three decimal digits of n < 1000
pad3(n) ==
    IF n < 10 THEN "00" \o ToString(n)
    ELSE IF n < 100 THEN "0" \o ToString(n)
    ELSE ToString(n)

\* f'{value:,.0f}' of a whole, non-negative float
RECURSIVE format_grouped(_)
format_grouped(n) ==
    IF n < 1000 THEN ToString(n)
    ELSE format_grouped(n \div 1000) \o "," \o pad3(n % 1000)

\* ballpark.business(value): the package is not part of the repository, so
\* its text is the application itself
ballpark_business(n) == "business(" \o ToString(n) \o ")"

\* datetime.strftime(as_of_date, '%a %d %b %y'): a text made of the date
strftime(date) == "date " \o ToString(date)

\* pct of the comparison rounded to the nearest whole number, not truncated
digest_str_rounded(value, compare_value, ballpark_value) ==
    LET num == (compare_value - value) * 100
        pct == IF num >= 0 THEN (2 * num + value) \div (2 * value)
               ELSE -((2 * (-num) + value) \div (2 * value))
        indicator == IF pct > 0 THEN "↑" ELSE IF pct < 0 THEN "↓" ELSE "→"
        text == IF ballpark_value THEN ballpark_business(value)
                ELSE format_grouped(value)
    IN  [text |-> text \o " (" \o indicator \o " " \o ToString(pct) \o "%)",
         value |-> text, indicator |-> indicator, pct |-> pct]

\* lines 76-90.  The returned string is text; value, indicator and pct are
\* the three parts it is formatted from.  value # 0.
digest_str(value, compare_value, ballpark_value) ==
    LET pct == trunc_div((compare_value - value) * 100, value)
        indicator == IF pct > 0 THEN "↑" ELSE IF pct < 0 THEN "↓" ELSE "→"
        text == IF ballpark_value THEN ballpark_business(value)
                ELSE format_grouped(value)
    IN  [text |-> text \o " (" \o indicator \o " " \o ToString(pct) \o "%)",
         value |-> text, indicator |-> indicator, pct |-> pct]

\* what int(.../value*100) raises for value = 0: a Python number raises
\* ZeroDivisionError, a numpy one gives inf or nan and int() of it raises
division_errors == {"ZeroDivisionError", "OverflowError", "ValueError"}

the_row(df) == CHOOSE r \in df.rows : TRUE

\* lines 118-131: the labelled rows, newest first, with their two digest strings
tall(by_label, as_of) ==
    LET labelled == {[LABEL |-> by_label[i].label,
                      MKT_DATE |-> the_row(by_label[i].df).MKT_DATE,
                      MKT_CLOSE |-> the_row(by_label[i].df).MKT_CLOSE,
                      MKT_VOLUME |-> the_row(by_label[i].df).MKT_VOLUME]
                     : i \in DOMAIN by_label}
        sorted == sort_by_date_desc(labelled)
    IN  [i \in DOMAIN sorted |->
            [LABEL |-> sorted[i].LABEL,
             CLOSE |-> digest_str(sorted[i].MKT_CLOSE, as_of.MKT_CLOSE, FALSE),
             VOLUME |-> digest_str(sorted[i].MKT_VOLUME, as_of.MKT_VOLUME, TRUE)]]

\* lines 146-150: one row per (metric, tall row), metric by metric
melt(frame) ==
    [n \in 1..(Len(metrics) * Len(frame)) |->
        LET m == metrics[((n - 1) \div Len(frame)) + 1]
            r == frame[((n - 1) % Len(frame)) + 1]
        IN  [LABEL |-> r.LABEL, METRIC |-> m,
             value |-> IF m = "CLOSE" THEN r.CLOSE ELSE r.VOLUME]]

\* line 151: index and columns are the sorted distinct METRIC and LABEL values
pivot(long) ==
    LET index == sorted_strs({long[n].METRIC : n \in DOMAIN long})
        columns == sorted_strs({long[n].LABEL : n \in DOMAIN long})
    IN  [index |-> index,
         columns |-> columns,
         rows |-> [i \in DOMAIN index |->
                    [j \in DOMAIN columns |->
                        long[CHOOSE n \in DOMAIN long :
                            long[n].METRIC = index[i] /\ long[n].LABEL = columns[j]].value]]]

\* lines 153-163: insert the as-of column, then SYMBOL, at loc 0;
\* reset_index turns the METRIC index into the first column
report(wide, sym, date, as_of) ==
    LET as_of_label == strftime(date)
        as_of_cells == <<format_grouped(as_of.MKT_CLOSE),
                         ballpark_business(as_of.MKT_VOLUME)>>
    IN  [columns |-> <<"METRIC", "SYMBOL", as_of_label>> \o wide.columns,
         rows |-> [i \in DOMAIN wide.index |->
                    <<wide.index[i], sym, as_of_cells[i]>> \o wide.rows[i]]]

----------------------------------------------------------------------------
(* One digest call (bin/stocks/digest.py runs one per process), step by    *)
(* step.  Nothing else runs meanwhile.                                     *)

call(sym, date, look_back, df) ==
    [symbol |-> sym, as_of_date |-> date, look_back |-> look_back, df |-> df]

\* lines 93-95
DigestCall(sym, date) ==
    /\ pc = "idle"
    /\ LET data == maybe_get_data(store, sym, date, as_of_look_back)
       IN  /\ symbol' = sym
           /\ as_of_date' = date
           /\ as_of_data' = data
           /\ calls' = <<call(sym, date, as_of_look_back, data)>>
           /\ IF data.rows = {}
              THEN /\ outcome' = [raised |-> "DigestError", line |-> 95]
                   /\ pc' = "done"
              ELSE /\ outcome' = outcome
                   /\ pc' = "offsets"
    /\ UNCHANGED <<data_by_label, digest>>
    /\ UNCHANGED store_vars

\* line 105: the dict comprehension's next item
ResolveOffset ==
    /\ pc = "offsets"
    /\ LET c == config(as_of_date)[Len(data_by_label) + 1]
           df == maybe_get_data(store, symbol, c.date, look_back_default)
       IN  /\ data_by_label' = Append(data_by_label, [label |-> c.label, df |-> df])
           /\ calls' = Append(calls, call(symbol, c.date, look_back_default, df))
           /\ pc' = IF Len(data_by_label) + 1 = Len(config(as_of_date))
                    THEN "validate" ELSE "offsets"
    /\ UNCHANGED <<symbol, as_of_date, as_of_data, outcome, digest>>
    /\ UNCHANGED store_vars

\* lines 107-115.  Both messages are built with json.dumps(config), whose
\* values are dates: json raises TypeError before a DigestError exists.
Validate ==
    /\ pc = "validate"
    /\ LET no_data == SelectSeq(data_by_label, LAMBDA e : e.df = None)
           dates == [i \in DOMAIN data_by_label |-> the_row(data_by_label[i].df).MKT_DATE]
       IN  IF Len(no_data) > 0
           THEN /\ outcome' = [raised |-> "TypeError", line |-> 110]
                /\ pc' = "done"
           ELSE IF \E i \in DOMAIN data_by_label : data_by_label[i].df.rows = {}
           THEN /\ outcome' = [raised |-> "IndexError", line |-> 113]
                /\ pc' = "done"
           ELSE IF Cardinality(Range(dates)) # Len(dates)
           THEN /\ outcome' = [raised |-> "TypeError", line |-> 115]
                /\ pc' = "done"
           ELSE /\ outcome' = outcome
                /\ pc' = "build"
    /\ UNCHANGED <<symbol, as_of_date, as_of_data, data_by_label, calls, digest>>
    /\ UNCHANGED store_vars

\* lines 117-163
BuildDigest ==
    /\ pc = "build"
    /\ IF \E i \in DOMAIN data_by_label :
            \/ the_row(data_by_label[i].df).MKT_CLOSE = 0
            \/ the_row(data_by_label[i].df).MKT_VOLUME = 0
       THEN /\ \E e \in division_errors : outcome' = [raised |-> e, line |-> 77]
            /\ digest' = digest
       ELSE /\ outcome' = [raised |-> "none", line |-> 163]
            /\ digest' = report(pivot(melt(tall(data_by_label, the_row(as_of_data)))),
                                symbol, as_of_date, the_row(as_of_data))
    /\ pc' = "done"
    /\ UNCHANGED <<symbol, as_of_date, as_of_data, data_by_label, calls>>
    /\ UNCHANGED store_vars

\* the process ends; the next one starts afresh
Exit ==
    /\ pc = "done"
    /\ pc' = "idle"
    /\ symbol' = ""
    /\ as_of_date' = 0
    /\ as_of_data' = NoDataFrame
    /\ data_by_label' = <<>>
    /\ calls' = <<>>
    /\ outcome' = NoOutcome
    /\ digest' = NoDigest
    /\ UNCHANGED store_vars

----------------------------------------------------------------------------
(* Stores a digest runs on: what alpha_vantage_download's frames leave     *)
(* after insert, for any choice of the trading days that were loaded       *)

\* close and volume of ABC's bar k days before Day0
quote(k) ==
    CASE k = 0 - 1 -> <<149, 1200000>>
      [] k = 0     -> <<100, 1000000>>
      [] k = 1     -> <<90, 500000>>
      [] k = 2     -> <<95, 600000>>
      [] k = 6     -> <<99, 0>>
      [] k = 7     -> <<150, 700000>>
      [] k = 30    -> <<149, 1490000>>
      [] k = 35    -> <<120, 300000>>
      [] k = 36    -> <<110, 250000>>
      [] k = 90    -> <<150, 1500000>>
      [] k = 180   -> <<99, 990000>>
      [] k = 365   -> <<50, 2000000>>
      [] k = 1095  -> <<20, 100000>>

\* to_pandas (lines 172-184): one record per entry of the provider's series
to_pandas(sym, k, close, volume) ==
    [MKT_SYMBOL |-> sym, MKT_DATE |-> Day0 - k, MKT_OPEN |-> close,
     MKT_HIGH |-> close + 1, MKT_LOW |-> close - 1, MKT_CLOSE |-> close,
     MKT_VOLUME |-> volume * FloatScale]

\* XYZ traded on three of the days
other_symbol == {to_pandas("XYZ", k, 10, 1000) : k \in {0, 1, 30}}

AsOfDates == {Day0, Day0 + 1}

DigestInit ==
    /\ \E days \in SUBSET BackDays :
         LET loaded == {to_pandas("ABC", k, quote(k)[1], quote(k)[2]) : k \in days}
                       \cup other_symbol
         IN  /\ store = {to_schema(r) : r \in loaded}
             /\ last_upsert = [k \in Keys |->
                    {r \in loaded : r.MKT_SYMBOL = k[1] /\ r.MKT_DATE = k[2]}]
    /\ overwritten = {}
    /\ insert_columns = schema
    /\ insert_error = "none"
    /\ DigestIdle

DigestNext ==
    \/ \E sym \in Symbols, date \in AsOfDates : DigestCall(sym, date)
    \/ ResolveOffset
    \/ Validate
    \/ BuildDigest
    \/ Exit

SpecDigest == DigestInit /\ [][DigestNext]_vars

----------------------------------------------------------------------------
(* Properties                                                              *)

\* the offsets and labels as the specification lists them
offset_days == <<1, 30, 90, 180, 365, 1095>>

offset_labels == <<"1d", "1m", "3m", "6m", "1y", "3y">>

\* the rows of sym dated from lo to hi, both included
bars_between(sym, lo, hi) ==
    {r \in store : r.MKT_SYMBOL = sym /\ lo <= r.MKT_DATE /\ r.MKT_DATE <= hi}

has_as_of_bar == bars_between(symbol, as_of_date, as_of_date) # {}

\* p is num/den cut toward zero (den > 0)
is_truncation(p, num, den) ==
    /\ num >= 0 => (p * den <= num /\ num < (p + 1) * den)
    /\ num < 0 => (p * den >= num /\ num > (p - 1) * den)

indicator_of(p) == IF p > 0 THEN "↑" ELSE IF p < 0 THEN "↓" ELSE "→"

returned == pc = "done" /\ outcome.raised = "none"

\* the cell of the returned frame in the row of metric m and the column named c
cell(m, c) ==
    LET i == CHOOSE i \in DOMAIN digest.rows : digest.rows[i][1] = m
        j == CHOOSE j \in DOMAIN digest.columns : digest.columns[j] = c
    IN  digest.rows[i][j]

\* the columns of the returned frame after METRIC, which names each row
data_columns == SelectSeq(digest.columns, LAMBDA c : c # "METRIC")

\* the row resolved for the i-th label
resolved(i) == the_row(data_by_label[i].df)

(* C1: if the as-of bar exists and one of the six offsets has no bar in    *)
(* [asOf - offset - 5, asOf - offset], digest ends with DigestError, after *)
(* all six offsets were resolved.                                          *)
C1_MissingOffsetRaisesDigestError ==
    (/\ pc = "done"
     /\ has_as_of_bar
     /\ \E i \in DOMAIN offset_days :
          bars_between(symbol, as_of_date - offset_days[i] - 5,
                       as_of_date - offset_days[i]) = {})
    => (outcome.raised = "DigestError" /\ Len(data_by_label) = Len(offset_days))

C3_ReportOrDigestError ==
    pc = "done" =>
        \/ outcome.raised = "DigestError"
        \/ /\ outcome.raised = "none"
           /\ Len(digest.rows) = 2
           /\ {digest.rows[i][1] : i \in DOMAIN digest.rows} = {"CLOSE", "VOLUME"}
           /\ Len(data_columns) = Len(offset_labels) + 2

(* C4: the columns of a returned digest are SYMBOL, the as-of-date column, *)
(* then 1d, 1m, 3m, 6m, 1y, 3y in that order, and each offset column holds *)
(* the comparison strings of the bar resolved for its label.               *)
C4_ColumnsInOffsetSpecOrder ==
    returned =>
        /\ data_columns = <<"SYMBOL", strftime(as_of_date)>> \o offset_labels
        /\ \A i \in DOMAIN offset_labels :
             /\ cell("CLOSE", offset_labels[i]).value = format_grouped(resolved(i).MKT_CLOSE)
             /\ cell("VOLUME", offset_labels[i]).value = ballpark_business(resolved(i).MKT_VOLUME)

(* C5: when the store has no bar of the symbol dated exactly the as-of     *)
(* date, the call ends with DigestError having issued the as-of query and  *)
(* no other: no offset is resolved and nothing is returned.                *)
C5_NoAsOfBarFailsBeforeOffsets ==
    (pc # "idle" /\ ~has_as_of_bar) =>
        /\ pc = "done"
        /\ outcome.raised = "DigestError"
        /\ \A i \in DOMAIN calls : calls[i].as_of_date = as_of_date
        /\ Len(calls) = 1
        /\ data_by_label = <<>>
        /\ digest = NoDigest

\* the as-of bar is missing while the day before has one
C5_Witness ==
    /\ pc = "done"
    /\ ~has_as_of_bar
    /\ bars_between(symbol, as_of_date - 1, as_of_date - 1) # {}
    /\ outcome.raised = "DigestError"

(* C7: every maybe_get_data call returns the empty frame exactly when the  *)
(* store has no bar of the symbol dated within [date - look_back, date],   *)
(* and otherwise the single bar of greatest date in that range; with       *)
(* look_back = 0 only a bar dated date itself; never a bar of another      *)
(* symbol or a later bar.                                                  *)
C7_ResolveNearestAtOrBefore ==
    \A i \in DOMAIN calls :
        LET c == calls[i]
            in_range == bars_between(c.symbol, c.as_of_date - c.look_back, c.as_of_date)
        IN  /\ c.df # None
            /\ c.df.rows = {} <=> in_range = {}
            /\ in_range # {} =>
                 \E r \in in_range :
                    /\ c.df.rows = {r}
                    /\ \A q \in in_range : q.MKT_DATE <= r.MKT_DATE
            /\ c.look_back = 0 => \A r \in c.df.rows : r.MKT_DATE = c.as_of_date
            /\ \A r \in c.df.rows :
                 r.MKT_SYMBOL = c.symbol /\ r.MKT_DATE <= c.as_of_date

\* a call that had two bars to choose from, none on the day asked for, with
\* another symbol's bar in range and a later bar in the store; and a call
\* that found nothing
C7_Witness ==
    /\ \E i \in DOMAIN calls :
         LET c == calls[i]
         IN  /\ c.look_back = 5
             /\ Cardinality(bars_between(c.symbol, c.as_of_date - 5, c.as_of_date)) >= 2
             /\ \E r \in c.df.rows : r.MKT_DATE < c.as_of_date
             /\ \E r \in store : /\ r.MKT_SYMBOL # c.symbol
                                 /\ r.MKT_DATE >= c.as_of_date - 5
                                 /\ r.MKT_DATE <= c.as_of_date
             /\ \E r \in store : r.MKT_SYMBOL = c.symbol /\ r.MKT_DATE > c.as_of_date
    /\ \E i \in DOMAIN calls :
         /\ calls[i].df.rows = {}
         /\ bars_between(calls[i].symbol, calls[i].as_of_date - 6,
                         calls[i].as_of_date - 6) # {}

(* C8: the table holds at most one row per (symbol, date); that row has    *)
(* the values of the last record upserted under the key; a range query     *)
(* over a range holding the date returns that one row for the date; and    *)
(* inserting a frame again changes nothing.                                *)
C8_UpsertOverwrites ==
    /\ \A k \in Keys :
         LET rows == {r \in store : r.MKT_SYMBOL = k[1] /\ r.MKT_DATE = k[2]}
         IN  /\ Cardinality(rows) <= 1
             /\ rows = {} <=> last_upsert[k] = {}
             /\ \A u \in last_upsert[k] :
                  /\ \E r \in rows :
                       /\ select(store, k[1], k[2], k[2]) = {r}
                       /\ r.MKT_OPEN = u.MKT_OPEN
                       /\ r.MKT_HIGH = u.MKT_HIGH
                       /\ r.MKT_LOW = u.MKT_LOW
                       /\ r.MKT_CLOSE = u.MKT_CLOSE
                       /\ r.MKT_VOLUME * FloatScale <= u.MKT_VOLUME
                       /\ u.MKT_VOLUME < (r.MKT_VOLUME + 1) * FloatScale
                  /\ \A lo \in LoadDates, hi \in LoadDates :
                       (lo <= k[2] /\ k[2] <= hi) =>
                           {r \in select(store, k[1], lo, hi) : r.MKT_DATE = k[2]} = rows
    /\ \A df \in GoodFrames :
         insert(insert(store, df).table, df).table = insert(store, df).table

\* a key whose row an upsert replaced with other values, beside another key
C8_Witness ==
    /\ overwritten # {}
    /\ Cardinality(store) >= 2
    /\ \E k \in overwritten : Cardinality(select(store, k[1], k[2], k[2])) = 1

(* C9: an insert of a frame whose column set is not the schema's raises    *)
(* and leaves the table as it was.                                         *)
C9_BadColumnsRejected ==
    [][Range(insert_columns') # Range(schema)
         => (insert_error' = "RuntimeError" /\ store' = store)]_vars

\* a rejected frame after rows were stored
C9_Witness ==
    /\ insert_error = "RuntimeError"
    /\ Range(insert_columns) # Range(schema)
    /\ store # {}

(* C10: the six offset queries cover the windows [asOf - k - 5, asOf - k], *)
(* which are pairwise disjoint and end before the as-of date; so resolved  *)
(* dates are before the as-of date and strictly decrease in label order,   *)
(* and the duplicate-date branch (line 115) is never taken.                *)
C10_WindowsDisjoint ==
    /\ \A i \in DOMAIN calls : i > 1 =>
         /\ calls[i].as_of_date = as_of_date - offset_days[i - 1]
         /\ calls[i].look_back = 5
         /\ calls[i].as_of_date < as_of_date
         /\ \A j \in DOMAIN calls :
              j > i => calls[j].as_of_date < calls[i].as_of_date - calls[i].look_back
    /\ \A i \in DOMAIN data_by_label : \A r \in data_by_label[i].df.rows :
         /\ r.MKT_DATE < as_of_date
         /\ \A j \in DOMAIN data_by_label : \A q \in data_by_label[j].df.rows :
              j > i => q.MKT_DATE < r.MKT_DATE
    /\ outcome.line # 115

\* all six labels resolved, one of them to an earlier day than asked for
C10_Witness ==
    /\ pc = "build"
    /\ \A i \in DOMAIN offset_labels : data_by_label[i].df.rows # {}
    /\ \E i \in DOMAIN offset_labels : resolved(i).MKT_DATE < as_of_date - offset_days[i]

============================================================================
